---- MODULE Spec2Model ----
(***************************************************************************)
(* A model of JsonValue (src/Json.hpp): the tagged document node, its       *)
(* constructors, assignment operators, accessors, comparison and parser.    *)
(*                                                                         *)
(* A std::string is a sequence of one-character strings.  A std::map is a   *)
(* function whose domain is the set of keys present; iteration order is the *)
(* lexicographic order of the keys.  A std::vector is a sequence.  The      *)
(* anonymous union mNumericValue is the raw bit pattern it stores: lo is    *)
(* the word shared by intmax_t, uintmax_t and the mantissa of the long      *)
(* double, hi is the sign/exponent word only the long double uses.          *)
(* The model is built without INCLUDE_GMP.                                  *)
(***************************************************************************)
EXTENDS Integers, Sequences, FiniteSets, TLC

VARIABLES values, last, pc

vars == <<values, last, pc>>

(* ------------------------------ bounds -------------------------------- *)

\* Longest array given as an input and largest index used.
MaxLen == 2

\* Width of intmax_t / uintmax_t in the model (64 in the build).
IntBits == 6

\* The two JsonValue objects the program holds: "a" is the object the
\* operations are called on, "b" is the operand it is copied from, moved
\* from and compared with; "b" is only ever constructed.
Slots == {"a", "b"}

(* --------------------------- enumerations ------------------------------ *)

Type == {"object", "array", "string", "number", "boolean", "null", "undefined"}

eNumberType == {"FLOATING", "SIGNED_INTEGRAL", "UNSIGNED_INTEGRAL", "NONE"}

(* ------------------------- the numeric union --------------------------- *)

Modulus == 2 ^ IntBits

Raw(lo, hi) == [lo |-> lo, hi |-> hi]

\* std::memset( &mNumericValue, 0, sizeof( mNumericValue ) )
ZeroRaw == Raw(0, 0)

\* mNumericValue.signedIntegral = n : two's complement in the low word; the
\* bytes of the long double beyond it keep what they held (zero, after the
\* memset every constructor and clear() does first).
StoreSigned(raw, n) == [raw EXCEPT !.lo = n % Modulus]

\* mNumericValue.unsignedIntegral = n
StoreUnsigned(raw, n) == [raw EXCEPT !.lo = n % Modulus]

\* mNumericValue.floatValue = f : f is given by its bit pattern.
StoreFloat(raw, f) == Raw(f.lo, f.hi)

\* Reading the union through each of its members.
signedIntegral(raw) == IF raw.lo >= Modulus \div 2 THEN raw.lo - Modulus ELSE raw.lo

unsignedIntegral(raw) == raw.lo

floatValue(raw) == raw

\* Bit patterns of the long double values used as inputs (x87 extended:
\* hi = sign and 15-bit exponent, lo = mantissa with explicit integer bit).
FloatZero == Raw(0, 0)

FloatOne == Raw(Modulus \div 2, 16383)

FloatNaN == Raw(Modulus \div 2 + Modulus \div 4, 32767)

IsNaN(f) == f.hi % 32768 = 32767 /\ f.lo # Modulus \div 2

\* operator== on two long doubles: a NaN equals nothing, otherwise the
\* values are equal when the bit patterns are (no negative zero is used).
FloatEq(f, g) == ~IsNaN(f) /\ ~IsNaN(g) /\ f = g

(* ------------------------------ strings -------------------------------- *)

\* Order of the characters used in keys (their order in ASCII).
Alphabet == <<"a", "b", "k", "s">>

CharOrd(c) == CHOOSE i \in 1..Len(Alphabet) : Alphabet[i] = c

Min(x, y) == IF x < y THEN x ELSE y

\* std::string::operator< : lexicographic comparison.
StringLess(s, t) ==
    \E i \in 1..(Min(Len(s), Len(t)) + 1) :
        /\ \A j \in 1..(i - 1) : s[j] = t[j]
        /\ \/ i = Len(s) + 1 /\ i <= Len(t)
           \/ i <= Len(s) /\ i <= Len(t) /\ CharOrd(s[i]) < CharOrd(t[i])

\* The keys of a std::map in iteration order: ascending.
RECURSIVE SortedKeys(_)
SortedKeys(S) ==
    IF S = {} THEN <<>>
    ELSE LET least == CHOOSE k \in S : \A o \in S \ {k} : StringLess(k, o)
         IN  <<least>> \o SortedKeys(S \ {least})

EmptyString == <<>>

EmptyArray == <<>>

EmptyMap == [k \in {} |-> 0]

(* ----------------------------- JsonValue ------------------------------- *)

\* The data members as they are when a constructor body starts: the class
\* members are default-constructed (empty), the primitives are written by
\* _initPrimitiveVariables, _copyAssign or _moveAssign before any read.
Members ==
    [mNumericValue |-> ZeroRaw, mType |-> "undefined", mNumericType |-> "NONE",
     mStringValue |-> EmptyString, mElements |-> EmptyArray,
     mMembers |-> EmptyMap, mBoolean |-> FALSE]

\* Fault variant: the assignment of mType is left out.
_initPrimitiveVariables_TypeNotSet(self, type) ==
    [self EXCEPT !.mBoolean = FALSE, !.mNumericType = "NONE", !.mNumericValue = ZeroRaw]

_initPrimitiveVariables(self, type) ==
    [self EXCEPT !.mType = type, !.mBoolean = FALSE, !.mNumericType = "NONE",
                 !.mNumericValue = ZeroRaw]

_copyAssign(self, other) ==
    [self EXCEPT !.mType = other.mType,
                 !.mStringValue = other.mStringValue,
                 !.mElements = other.mElements,
                 !.mMembers = other.mMembers,
                 !.mBoolean = other.mBoolean,
                 !.mNumericType = other.mNumericType,
                 !.mNumericValue =
                     IF other.mNumericType \in {"FLOATING", "SIGNED_INTEGRAL", "UNSIGNED_INTEGRAL"}
                     THEN other.mNumericValue
                     ELSE ZeroRaw]

\* _moveAssign changes both objects: self receives, other is left behind.
\* A moved-from std::string, std::vector or std::map is empty.
_moveAssignSelf(self, other) ==
    [self EXCEPT !.mType = other.mType,
                 !.mStringValue = other.mStringValue,
                 !.mElements = other.mElements,
                 !.mMembers = other.mMembers,
                 !.mBoolean = other.mBoolean,
                 !.mNumericType = other.mNumericType,
                 !.mNumericValue = other.mNumericValue]

\* Fault variant: mType is copied (std::exchange replaced by a plain read).
_moveAssignOther_TypeKept(other) ==
    [other EXCEPT !.mStringValue = EmptyString,
                  !.mElements = EmptyArray,
                  !.mMembers = EmptyMap,
                  !.mBoolean = FALSE,
                  !.mNumericType = "NONE",
                  !.mNumericValue = ZeroRaw]

_moveAssignOther(other) ==
    [other EXCEPT !.mType = "undefined",
                  !.mStringValue = EmptyString,
                  !.mElements = EmptyArray,
                  !.mMembers = EmptyMap,
                  !.mBoolean = FALSE,
                  !.mNumericType = "NONE",
                  !.mNumericValue = ZeroRaw]

\* Fault variant: mElements.clear() is left out.
clear_ElementsKept(self) ==
    [self EXCEPT !.mType = "undefined",
                 !.mStringValue = EmptyString,
                 !.mMembers = EmptyMap,
                 !.mBoolean = FALSE,
                 !.mNumericType = "NONE",
                 !.mNumericValue = ZeroRaw]

\* Fault variant: mMembers.clear() is left out.
clear_MembersKept(self) ==
    [self EXCEPT !.mType = "undefined",
                 !.mStringValue = EmptyString,
                 !.mElements = EmptyArray,
                 !.mBoolean = FALSE,
                 !.mNumericType = "NONE",
                 !.mNumericValue = ZeroRaw]

clear(self) ==
    [self EXCEPT !.mType = "undefined",
                 !.mStringValue = EmptyString,
                 !.mElements = EmptyArray,
                 !.mMembers = EmptyMap,
                 !.mBoolean = FALSE,
                 !.mNumericType = "NONE",
                 !.mNumericValue = ZeroRaw]

type(self) == self.mType

is(self, t) == t = self.mType

hasMember(self, key) ==
    IF self.mType = "object" THEN key \in DOMAIN self.mMembers ELSE FALSE

\* operator== : the switch is on this object's mType and mNumericType only;
\* the union of the other object is read through the member this object uses.
RECURSIVE OperatorEq(_, _)
OperatorEq(self, other) ==
    IF self.mType # other.mType THEN FALSE
    ELSE CASE self.mType = "object" ->
                /\ DOMAIN self.mMembers = DOMAIN other.mMembers
                /\ \A k \in DOMAIN self.mMembers :
                       OperatorEq(self.mMembers[k], other.mMembers[k])
           [] self.mType = "array" ->
                /\ Len(self.mElements) = Len(other.mElements)
                /\ \A i \in 1..Len(self.mElements) :
                       OperatorEq(self.mElements[i], other.mElements[i])
           [] self.mType = "string" -> self.mStringValue = other.mStringValue
           [] self.mType = "number" ->
                CASE self.mNumericType = "FLOATING" ->
                        FloatEq(floatValue(self.mNumericValue), floatValue(other.mNumericValue))
                  [] self.mNumericType = "SIGNED_INTEGRAL" ->
                        signedIntegral(self.mNumericValue) = signedIntegral(other.mNumericValue)
                  [] self.mNumericType = "UNSIGNED_INTEGRAL" ->
                        unsignedIntegral(self.mNumericValue) = unsignedIntegral(other.mNumericValue)
                  [] OTHER -> FALSE
           [] self.mType = "boolean" -> self.mBoolean = other.mBoolean
           [] self.mType = "null" -> TRUE
           [] OTHER -> FALSE

OperatorNe(self, other) == ~OperatorEq(self, other)

\* JsonValue& operator=( const JsonValue& other ), for two distinct objects.
OperatorAssignCopy(self, other) ==
    IF OperatorNe(self, other) THEN _copyAssign(clear(self), other) ELSE self

\* The same operator when other is *this: clear() empties the object that
\* _copyAssign then copies from.
OperatorAssignSelf(self) ==
    IF OperatorNe(self, self) THEN _copyAssign(clear(self), clear(self)) ELSE self

\* JsonValue& operator=( JsonValue&& other ), for two distinct objects.
OperatorAssignMove(self, other) ==
    IF OperatorNe(self, other)
    THEN [self |-> _moveAssignSelf(clear(self), other), other |-> _moveAssignOther(other)]
    ELSE [self |-> self, other |-> other]

\* keys(): memberKeys is constructed with mMembers.size() empty strings and
\* std::back_inserter then appends one key per member after them.  The
\* return statement names objectKeys, which nothing declares; memberKeys is
\* the only vector in scope and is what is returned here.
keys(self) ==
    IF self.mType = "object"
    THEN [err |-> "none",
          ret |-> [i \in 1..Cardinality(DOMAIN self.mMembers) |-> EmptyString]
                  \o SortedKeys(DOMAIN self.mMembers)]
    ELSE [err |-> "runtime_error", ret |-> <<>>]

\* Fault variant: the case for Type::string is left out of the switch.
size_StringCaseMissing(self) ==
    CASE self.mType = "object" -> [err |-> "none", ret |-> Cardinality(DOMAIN self.mMembers)]
      [] self.mType = "array" -> [err |-> "none", ret |-> Len(self.mElements)]
      [] OTHER -> [err |-> "runtime_error", ret |-> 0]

size(self) ==
    CASE self.mType = "object" -> [err |-> "none", ret |-> Cardinality(DOMAIN self.mMembers)]
      [] self.mType = "array" -> [err |-> "none", ret |-> Len(self.mElements)]
      [] self.mType = "string" -> [err |-> "none", ret |-> Len(self.mStringValue)]
      [] OTHER -> [err |-> "runtime_error", ret |-> 0]

\* JsonValue( Type type = Type::undefined )
JsonValue(t) == _initPrimitiveVariables(Members, t)

\* Fault variant: the member is value-initialised on every access.
MapIndex_ResetsMember(m, key) ==
    [k \in DOMAIN m \cup {key} |-> IF k = key THEN JsonValue("undefined") ELSE m[k]]

\* std::map::operator[] : inserts a value-initialised JsonValue when absent.
MapIndex(m, key) ==
    IF key \in DOMAIN m THEN m
    ELSE [k \in DOMAIN m \cup {key} |-> IF k = key THEN JsonValue("undefined") ELSE m[k]]

\* Fault variant: the member is looked up before the type is tested.
KeyedMutable_InsertsBeforeTypeCheck(self, key) ==
    LET m == MapIndex(self.mMembers, key)
    IN  IF self.mType # "object"
        THEN [err |-> "runtime_error", self |-> [self EXCEPT !.mMembers = m], ret |-> self]
        ELSE [err |-> "none", self |-> [self EXCEPT !.mMembers = m], ret |-> m[key]]

\* JsonValue& operator[]( const std::string& key )
KeyedMutable(self, key) ==
    IF self.mType # "object"
    THEN [err |-> "runtime_error", self |-> self, ret |-> self]
    ELSE LET m == MapIndex(self.mMembers, key)
         IN  [err |-> "none", self |-> [self EXCEPT !.mMembers = m], ret |-> m[key]]

\* Fault variant: the const overload uses std::map::operator[] like the
\* mutable one.
KeyedConst_Inserts(self, key) == KeyedMutable(self, key)

\* JsonValue& operator[]( const std::string& key ) const : std::map::at
KeyedConst(self, key) ==
    IF self.mType # "object"
    THEN [err |-> "runtime_error", self |-> self, ret |-> self]
    ELSE IF key \in DOMAIN self.mMembers
         THEN [err |-> "none", self |-> self, ret |-> self.mMembers[key]]
         ELSE [err |-> "out_of_range", self |-> self, ret |-> self]

\* std::vector::resize( n ): truncates, or appends value-initialised elements.
Resize(elements, n) ==
    [i \in 1..n |-> IF i <= Len(elements) THEN elements[i] ELSE JsonValue("undefined")]

\* Fault variant: a negative index is used as size_t( -index ), the offset
\* from the end is not taken.
AbsoluteIndex_FromStart(self, index) ==
    IF index < 0
    THEN IF Len(self.mElements) < -index THEN -1 ELSE -index
    ELSE index

\* The conversion of a signed index into an offset from the beginning
\* (mElments in the negative branch is read as mElements).
\* abs = -1 stands for the std::out_of_range of the negative branch.
AbsoluteIndex(self, index) ==
    IF index < 0
    THEN IF Len(self.mElements) < -index THEN -1 ELSE Len(self.mElements) - (-index)
    ELSE index

\* JsonValue& operator[]( IntegralType index ).  Elements are numbered from
\* 1 in the model, from 0 in the code.  When absoluteIndex exceeds size()
\* nothing is resized and mElements[ absoluteIndex ] is past the end: the
\* behaviour is undefined; the operator itself writes nothing, its outcome is
\* a dangling reference or an abort of a checked build.
IndexMutable(self, index, ub) ==
    IF self.mType # "array"
    THEN [err |-> "runtime_error", self |-> self, ret |-> self]
    ELSE LET abs == AbsoluteIndex(self, index)
             resized == IF abs <= Len(self.mElements)
                        THEN Resize(self.mElements, abs + 1)
                        ELSE self.mElements
         IN  IF abs < 0 THEN [err |-> "out_of_range", self |-> self, ret |-> self]
             ELSE IF abs + 1 <= Len(resized)
                  THEN [err |-> "none", self |-> [self EXCEPT !.mElements = resized],
                        ret |-> resized[abs + 1]]
                  ELSE [err |-> ub, self |-> self, ret |-> self]

\* JsonValue& operator[]( IntegralType index ) const : std::vector::at
IndexConst(self, index) ==
    IF self.mType # "array"
    THEN [err |-> "runtime_error", self |-> self, ret |-> self]
    ELSE LET abs == AbsoluteIndex(self, index)
         IN  IF abs < 0 \/ abs >= Len(self.mElements)
             THEN [err |-> "out_of_range", self |-> self, ret |-> self]
             ELSE [err |-> "none", self |-> self, ret |-> self.mElements[abs + 1]]

\* The object, array and string constructors and assignment operators.
SetObject(self, object) == [self EXCEPT !.mType = "object", !.mMembers = object]

SetArray(self, array) == [self EXCEPT !.mType = "array", !.mElements = array]

SetString(self, string) == [self EXCEPT !.mType = "string", !.mStringValue = string]

SetBoolean(self, boolean) == [self EXCEPT !.mType = "boolean", !.mBoolean = boolean]

\* The arithmetic constructor and assignment: the branch is chosen by the
\* class of ArithmeticType (is_arthmetic at line 326 is read as is_arithmetic).
SetArithmetic(self, a) ==
    CASE a.cls = "floating" ->
            [self EXCEPT !.mType = "number", !.mNumericType = "FLOATING",
                         !.mNumericValue = StoreFloat(self.mNumericValue, a.f)]
      [] a.cls = "unsigned" ->
            [self EXCEPT !.mType = "number", !.mNumericType = "UNSIGNED_INTEGRAL",
                         !.mNumericValue = StoreUnsigned(self.mNumericValue, a.n)]
      [] OTHER ->
            [self EXCEPT !.mType = "number", !.mNumericType = "SIGNED_INTEGRAL",
                         !.mNumericValue = StoreSigned(self.mNumericValue, a.n)]

\* operator ArithmeticType() const : every case down to Type::boolean shares
\* one return statement, ArithmeticType( mBoolean ); Type::null returns 0;
\* Type::undefined has no case and control flows off the end of the function
\* without a return: the value the caller reads is indeterminate.
OperatorArithmetic(self, indeterminate) ==
    CASE self.mType \in {"object", "array", "string", "number", "boolean"} ->
            [err |-> "none", ret |-> IF self.mBoolean THEN 1 ELSE 0]
      [] self.mType = "null" -> [err |-> "none", ret |-> 0]
      [] OTHER -> [err |-> "no_return", ret |-> indeterminate]

\* std::string stringify( Indent, size_t ) const : the body is empty, so the
\* function reads nothing of the value and ends without a return statement.
\* What the caller receives does not depend on the value: the call aborts,
\* or hands back whatever text the return slot happens to hold.
stringify(self, outcome) ==
    IF outcome = "abort"
    THEN [err |-> "abort", ret |-> EmptyString]
    ELSE [err |-> "no_return", ret |-> outcome]

(* ---------------------------- ParseSource ------------------------------ *)

\* The source is a std::string: src is its text, pos is mCurrentReadPosition
\* (counted from 0).  mLastReadPosition is written by peek and read nowhere.

\* The character '\0'.
NUL == "NUL"

endOfSource(src, pos) == pos = Len(src)

peek(src, pos, offset) ==
    IF endOfSource(src, pos) THEN NUL
    ELSE IF Len(src) < pos + offset THEN NUL
         ELSE IF pos + offset = Len(src) THEN NUL
              ELSE src[pos + offset + 1]

\* ParseSource::strncmp compares nothing: both paths return false.
strncmp(src, pos, string) ==
    IF endOfSource(src, pos) THEN FALSE ELSE FALSE

\* ParseSource::update has an empty body under 0 < offset: the position stays.
update(src, pos, offset) ==
    IF endOfSource(src, pos) THEN pos
    ELSE IF 0 < offset THEN pos ELSE pos

\* ParseSource::copy has an empty body: the destination is not written.
copy(destination, src, pos, length) == destination

\* strchr( set, c ) # nullptr : the terminating '\0' of the set matches too.
Strchr(set, c) == c \in set \cup {NUL}

STRING_WHITESPACE == {" ", "\r", "\n", "\t"}

STRING_ESCAPE_CHARACTER == {"\"", "\\", "/", "b", "f", "n", "r", "t", "u"}

\* ( '\0' <= c ) and ( c < ' ' ), for the characters the inputs use.
IsControl(c) == c \in {NUL, "\t", "\n", "\r", "\f"}

isxdigit(c) ==
    c \in {"0", "1", "2", "3", "4", "5", "6", "7", "8", "9",
           "a", "b", "c", "d", "e", "f", "A", "B", "C", "D", "E", "F"}

isdigit(c) == c \in {"0", "1", "2", "3", "4", "5", "6", "7", "8", "9"}

(* ------------------------------ parser --------------------------------- *)

\* The outcome of a rule: status is "ok", "ParseError" (thrown; rule names
\* the thrower) or "diverges" (the rule never returns: a loop or a recursion
\* that repeats without moving the read position).
Outcome(status, rule, self, pos) ==
    [status |-> status, rule |-> rule, self |-> self, pos |-> pos]

\* _parseWhitespace: a loop whose only state is the read position.
RECURSIVE _parseWhitespace(_, _)
_parseWhitespace(src, pos) ==
    IF ~endOfSource(src, pos) /\ Strchr(STRING_WHITESPACE, peek(src, pos, 0))
    THEN IF update(src, pos, 1) = pos
         THEN [status |-> "diverges", pos |-> pos]
         ELSE _parseWhitespace(src, update(src, pos, 1))
    ELSE [status |-> "ok", pos |-> pos]

\* The scanning loop of _parseString: the length scanned, or -1 - length
\* when the loop throws at that length.
RECURSIVE ScanString(_, _, _)
ScanString(src, pos, stringLength) ==
    IF ~endOfSource(src, pos) /\ "\"" # peek(src, pos, stringLength)
    THEN IF "\\" = peek(src, pos, stringLength)
         THEN IF ~Strchr(STRING_ESCAPE_CHARACTER, peek(src, pos, stringLength + 1))
              THEN -1 - (stringLength + 1)
              ELSE IF "u" = peek(src, pos, stringLength + 1)
                   THEN IF \A d \in 2..5 : isxdigit(peek(src, pos, stringLength + d))
                        THEN ScanString(src, pos, stringLength + 6)
                        ELSE -1 - (stringLength + 1)
                   ELSE ScanString(src, pos, stringLength + 2)
         ELSE IF IsControl(peek(src, pos, stringLength))
              THEN -1 - stringLength
              ELSE ScanString(src, pos, stringLength + 1)
    ELSE stringLength

_parseString(self, src, pos) ==
    IF "\"" # peek(src, pos, 0)
    THEN Outcome("ParseError", "parseString", self, pos)
    ELSE LET p1 == update(src, pos, 1)
             stringLength == ScanString(src, p1, 0)
         IN  IF stringLength < 0 \/ "\"" # peek(src, p1, stringLength)
             THEN Outcome("ParseError", "parseString", self, p1)
             ELSE Outcome("ok", "parseString",
                          [self EXCEPT !.mStringValue = copy(@, src, p1, stringLength),
                                       !.mType = "string"],
                          update(src, p1, stringLength + 1))

\* _parseNumber is empty: nothing is read and nothing is assigned.
_parseNumber(self, src, pos) == Outcome("ok", "parseNumber", self, pos)

(* ------------------------- operator std::string ------------------------ *)

Digits == <<"0", "1", "2", "3", "4", "5", "6", "7", "8", "9">>

RECURSIVE NatString(_)
NatString(n) ==
    IF n < 10 THEN <<Digits[n + 1]>>
    ELSE NatString(n \div 10) \o <<Digits[(n % 10) + 1]>>

\* std::to_string of an integer.
IntString(n) == IF n < 0 THEN <<"-">> \o NatString(-n) ELSE NatString(n)

\* std::to_string of a long double ("%Lf"), for the values used as inputs.
FloatString(f) ==
    CASE f = FloatZero -> <<"0", ".", "0", "0", "0", "0", "0", "0">>
      [] f = FloatOne -> <<"1", ".", "0", "0", "0", "0", "0", "0">>
      [] OTHER -> <<"n", "a", "n">>

RECURSIVE OperatorString(_)
OperatorString(self) ==
    CASE self.mType = "object" ->
            <<"[", "o", "b", "j", "e", "c", "t", " ", "O", "b", "j", "e", "c", "t", "]">>
      [] self.mType = "array" ->
            LET Join[i \in 0..Len(self.mElements)] ==
                    IF i = 0 THEN <<>>
                    ELSE IF i = 1 THEN OperatorString(self.mElements[1])
                         ELSE Join[i - 1] \o <<",">> \o OperatorString(self.mElements[i])
            IN  Join[Len(self.mElements)]
      [] self.mType = "string" -> self.mStringValue
      [] self.mType = "number" ->
            CASE self.mNumericType = "FLOATING" -> FloatString(floatValue(self.mNumericValue))
              [] self.mNumericType = "SIGNED_INTEGRAL" -> IntString(signedIntegral(self.mNumericValue))
              [] self.mNumericType = "UNSIGNED_INTEGRAL" -> IntString(unsignedIntegral(self.mNumericValue))
              [] OTHER -> <<>>
      [] self.mType = "boolean" ->
            IF self.mBoolean THEN <<"t", "r", "u", "e">> ELSE <<"f", "a", "l", "s", "e">>
      [] self.mType = "null" -> <<"n", "u", "l", "l">>
      [] OTHER -> <<>>

(* ------------------------- the recursive rules -------------------------- *)

STRING_TRUE == <<"t", "r", "u", "e">>

STRING_FALSE == <<"f", "a", "l", "s", "e">>

STRING_NULL == <<"n", "u", "l", "l">>

\* stack holds the read positions at which a _parseValue is active: a
\* _parseValue entered again at one of them repeats its caller for ever.
RECURSIVE _parseValue(_, _, _, _)
RECURSIVE _parseArray(_, _, _, _)
RECURSIVE _parseObject(_, _, _, _)
RECURSIVE ArrayLoop(_, _, _, _)
RECURSIVE ArrayElement(_, _, _, _, _)
RECURSIVE ObjectLoop(_, _, _, _)
RECURSIVE ObjectKey(_, _, _, _, _)
RECURSIVE ObjectMember(_, _, _, _, _, _)

\* JsonValue( Type, ParseSource& ), used by _parseArray and _parseObject and
\* defined nowhere in the source: a value of the given type initialised, then
\* parsed from the source: a string for a key, any value for an element.
JsonValueFromSource(t, src, pos, stack) ==
    IF t = "string"
    THEN _parseString(JsonValue(t), src, pos)
    ELSE _parseValue(JsonValue(t), src, pos, stack)

\* The body of the while loop of _parseArray once the element is parsed.
ArrayElement(self, src, pos, stack, child) ==
    LET pushed == [self EXCEPT !.mElements = Append(@, child.self)]
        p1 == IF "," = peek(src, child.pos, 0)
              THEN update(src, child.pos, 1) ELSE child.pos
    IN  IF child.status # "ok"
        THEN Outcome(child.status, child.rule, self, child.pos)
        ELSE IF "," # peek(src, child.pos, 0) /\ "]" # peek(src, child.pos, 0)
             THEN Outcome("ParseError", "parseArray", pushed, child.pos)
             ELSE IF p1 = pos
                  THEN Outcome("diverges", "parseArray", pushed, p1)
                  ELSE ArrayLoop(pushed, src, p1, stack)

\* The while loop of _parseArray: an iteration that ends at the position it
\* started at is repeated for ever.
ArrayLoop(self, src, pos, stack) ==
    IF ~endOfSource(src, pos) /\ "]" # peek(src, pos, 0)
    THEN ArrayElement(self, src, pos, stack,
                      JsonValueFromSource("undefined", src, pos, stack))
    ELSE Outcome("ok", "parseArray", self, pos)

\* The end of _parseArray, after the loop.
ArrayEnd(src, loop) ==
    IF loop.status # "ok" THEN loop
    ELSE IF "]" # peek(src, loop.pos, 0)
         THEN Outcome("ParseError", "parseArray", loop.self, update(src, loop.pos, 1))
         ELSE Outcome("ok", "parseArray", [loop.self EXCEPT !.mType = "array"],
                      update(src, loop.pos, 1))

ArrayBody(self, src, stack, ws) ==
    IF ws.status # "ok"
    THEN Outcome(ws.status, "parseWhitespace", self, ws.pos)
    ELSE ArrayEnd(src, ArrayLoop(self, src, ws.pos, stack))

_parseArray(self, src, pos, stack) ==
    IF "[" # peek(src, pos, 0)
    THEN Outcome("ParseError", "parseArray", self, pos)
    ELSE ArrayBody(self, src, stack, _parseWhitespace(src, update(src, pos, 1)))

\* mMembers[ std::string( key ) ] = JsonValue( Type::undefined, source ) and
\* the rest of the loop body.
ObjectMember(self, src, pos, stack, key, child) ==
    LET name == OperatorString(key.self)
        slot == MapIndex(self.mMembers, name)
        stored == [self EXCEPT !.mMembers =
                                   [slot EXCEPT ![name] = OperatorAssignMove(@, child.self).self]]
        p2 == IF "," = peek(src, child.pos, 0)
              THEN update(src, child.pos, 1) ELSE child.pos
    IN  IF child.status # "ok"
        THEN Outcome(child.status, child.rule, self, child.pos)
        ELSE IF "," # peek(src, child.pos, 0) /\ "}" # peek(src, child.pos, 0)
             THEN Outcome("ParseError", "parseObject", stored, child.pos)
             ELSE IF p2 = pos
                  THEN Outcome("diverges", "parseObject", stored, p2)
                  ELSE ObjectLoop(stored, src, p2, stack)

\* The body of the while loop of _parseObject once the key is parsed.
ObjectKey(self, src, pos, stack, key) ==
    IF key.status # "ok"
    THEN Outcome(key.status, key.rule, self, key.pos)
    ELSE IF ":" # peek(src, key.pos, 0)
         THEN Outcome("ParseError", "parseObject", self, key.pos)
         ELSE ObjectMember(self, src, pos, stack, key,
                           JsonValueFromSource("undefined", src,
                                               update(src, key.pos, 1), stack))

ObjectLoop(self, src, pos, stack) ==
    IF ~endOfSource(src, pos) /\ "}" # peek(src, pos, 0)
    THEN ObjectKey(self, src, pos, stack, JsonValueFromSource("string", src, pos, stack))
    ELSE Outcome("ok", "parseObject", self, pos)

ObjectEnd(src, loop) ==
    IF loop.status # "ok" THEN loop
    ELSE IF "}" # peek(src, loop.pos, 0)
         THEN Outcome("ParseError", "parseObject", loop.self, update(src, loop.pos, 1))
         ELSE Outcome("ok", "parseObject", [loop.self EXCEPT !.mType = "object"],
                      update(src, loop.pos, 1))

ObjectBody(self, src, stack, ws) ==
    IF ws.status # "ok"
    THEN Outcome(ws.status, "parseWhitespace", self, ws.pos)
    ELSE ObjectEnd(src, ObjectLoop(self, src, ws.pos, stack))

_parseObject(self, src, pos, stack) ==
    IF "{" # peek(src, pos, 0)
    THEN Outcome("ParseError", "parseObject", self, pos)
    ELSE ObjectBody(self, src, stack, _parseWhitespace(src, update(src, pos, 1)))

\* The trailing _parseWhitespace of _parseValue.
TrailingWhitespace(r, ws) ==
    IF ws.status # "ok" THEN Outcome(ws.status, "parseWhitespace", r.self, ws.pos)
    ELSE Outcome("ok", "parseValue", r.self, ws.pos)

Trailing(r, src) ==
    IF r.status # "ok" THEN r ELSE TrailingWhitespace(r, _parseWhitespace(src, r.pos))

\* The dispatch of _parseValue on the character at the read position.
Dispatch(self, src, pos, p, c, stack) ==
    IF "\"" = c THEN Trailing(_parseString(self, src, p), src)
    ELSE IF "-" = c \/ isdigit(c) THEN Trailing(_parseNumber(self, src, p), src)
    ELSE IF "{" = c THEN Trailing(_parseObject(self, src, p, stack \cup {pos}), src)
    ELSE IF "[" = c THEN Trailing(_parseArray(self, src, p, stack \cup {pos}), src)
    ELSE IF strncmp(src, p, STRING_TRUE)
         THEN Trailing(Outcome("ok", "parseValue",
                               [self EXCEPT !.mType = "boolean", !.mBoolean = TRUE],
                               update(src, p, Len(STRING_TRUE))), src)
    ELSE IF strncmp(src, p, STRING_FALSE)
         THEN Trailing(Outcome("ok", "parseValue",
                               [self EXCEPT !.mType = "boolean", !.mBoolean = FALSE],
                               update(src, p, Len(STRING_FALSE))), src)
    ELSE IF strncmp(src, p, STRING_NULL)
         THEN Trailing(Outcome("ok", "parseValue",
                               [self EXCEPT !.mType = "null"],
                               update(src, p, Len(STRING_NULL))), src)
    ELSE Outcome("ParseError", "parseValue", self, p)

LeadingWhitespace(self, src, pos, ws, stack) ==
    IF ws.status # "ok" THEN Outcome(ws.status, "parseWhitespace", self, ws.pos)
    ELSE Dispatch(self, src, pos, ws.pos, peek(src, ws.pos, 0), stack)

_parseValue(self, src, pos, stack) ==
    IF pos \in stack THEN Outcome("diverges", "parseValue", self, pos)
    ELSE LeadingWhitespace(self, src, pos, _parseWhitespace(src, pos), stack)

\* Fault variant: parse without the leading this->clear().
parse_NotCleared(self, jsonString) == _parseValue(self, jsonString, 0, {})

\* void parse( const std::string& jsonString )
parse(self, jsonString) == _parseValue(clear(self), jsonString, 0, {})

(* ------------------------------ inputs --------------------------------- *)

Keys == {<<"a">>, <<"b">>}

InputStrings == {<<>>, <<"s">>}

ArithmeticInputs ==
    {[cls |-> "signed", n |-> 5, f |-> FloatZero],
     [cls |-> "unsigned", n |-> 5, f |-> FloatZero],
     [cls |-> "floating", n |-> 0, f |-> FloatNaN]}

\* The values given as members and elements of the input objects and arrays.
InputChildren == {SetBoolean(JsonValue("boolean"), TRUE)}

InputObjects == UNION {[D -> InputChildren] : D \in SUBSET Keys}

InputArrays == UNION {[1..n -> InputChildren] : n \in 0..MaxLen}

Indices == (-(MaxLen + 1))..MaxLen

InputTexts ==
    {<<>>,
     <<"t", "r", "u">>,
     <<"t", "r", "u", "e">>,
     <<"\"", "s", "\"">>,
     <<"5">>,
     <<" ", "5">>,
     <<"{", "}">>,
     <<"[", "\"", "s", "\"", " ", "x">>}

\* What indexing past the end of a std::vector does: the unchecked build
\* returns a reference past the end, the checked build aborts.
PastTheEnd == {"dangling_reference", "abort"}

\* Values a function that ends without a return statement can hand back.
Indeterminate == {0, 1}

\* Outcomes of a std::string function that ends without a return statement:
\* an abort, or a text unrelated to the value.
NoReturnStrings == {"abort", <<>>, <<"\"", "s", "\"">>}

(* --------------------------- the state machine ------------------------- *)

NoArg == "none"

\* The record of the last operation: its name, the object it was called on
\* (t), the other operand (u, "-" when none), its argument, the objects as they
\* were before the call, what it returned and what it threw.
Record(op, t, u, arg, ret, err) ==
    [op |-> op, t |-> t, u |-> u, arg |-> arg, pre |-> values, ret |-> ret, err |-> err]

Init ==
    /\ values = [i \in Slots |-> JsonValue("undefined")]
    /\ last = [op |-> "init", t |-> "-", u |-> "-", arg |-> NoArg, pre |-> <<>>,
               ret |-> NoArg, err |-> "none"]
    /\ pc = "running"

\* Object t replaced by v.
Put(t, v) == [values EXCEPT ![t] = v]

(* constructors: the object in slot t is destroyed and constructed anew *)

ConstructDefault ==
    \E t \in Slots :
        /\ pc = "running"
        /\ values' = Put(t, JsonValue("undefined"))
        /\ last' = Record("JsonValue()", t, "-", NoArg, NoArg, "none")
        /\ pc' = pc

ConstructType ==
    \E t \in Slots, ty \in Type :
        /\ pc = "running"
        /\ values' = Put(t, JsonValue(ty))
        /\ last' = Record("JsonValue(Type)", t, "-", ty, NoArg, "none")
        /\ pc' = pc

ConstructCopy ==
    \E t \in {"a"}, u \in {"b"} :
        /\ pc = "running"
        /\ values' = Put(t, _copyAssign(Members, values[u]))
        /\ last' = Record("JsonValue(const JsonValue&)", t, u, NoArg, NoArg, "none")
        /\ pc' = pc

ConstructMove ==
    \E t \in {"a"}, u \in {"b"} :
        /\ pc = "running"
        /\ values' = [values EXCEPT ![t] = _moveAssignSelf(Members, values[u]),
                                    ![u] = _moveAssignOther(values[u])]
        /\ last' = Record("JsonValue(JsonValue&&)", t, u, NoArg, NoArg, "none")
        /\ pc' = pc

ConstructObject ==
    \E t \in Slots, object \in InputObjects :
        /\ pc = "running"
        /\ values' = Put(t, SetObject(_initPrimitiveVariables(Members, "object"), object))
        /\ last' = Record("JsonValue(ObjectType)", t, "-", object, NoArg, "none")
        /\ pc' = pc

ConstructArray ==
    \E t \in Slots, array \in InputArrays :
        /\ pc = "running"
        /\ values' = Put(t, SetArray(_initPrimitiveVariables(Members, "array"), array))
        /\ last' = Record("JsonValue(ArrayType)", t, "-", array, NoArg, "none")
        /\ pc' = pc

ConstructString ==
    \E t \in Slots, string \in InputStrings :
        /\ pc = "running"
        /\ values' = Put(t, SetString(_initPrimitiveVariables(Members, "string"), string))
        /\ last' = Record("JsonValue(string)", t, "-", string, NoArg, "none")
        /\ pc' = pc

ConstructBoolean ==
    \E t \in Slots, boolean \in BOOLEAN :
        /\ pc = "running"
        /\ values' = Put(t, SetBoolean(_initPrimitiveVariables(Members, "boolean"), boolean))
        /\ last' = Record("JsonValue(bool)", t, "-", boolean, NoArg, "none")
        /\ pc' = pc

ConstructArithmetic ==
    \E t \in Slots, a \in ArithmeticInputs :
        /\ pc = "running"
        /\ values' = Put(t, SetArithmetic(_initPrimitiveVariables(Members, "number"), a))
        /\ last' = Record("JsonValue(ArithmeticType)", t, "-", a, NoArg, "none")
        /\ pc' = pc

ConstructNull ==
    \E t \in Slots :
        /\ pc = "running"
        /\ values' = Put(t, _initPrimitiveVariables(Members, "null"))
        /\ last' = Record("JsonValue(nullptr_t)", t, "-", NoArg, NoArg, "none")
        /\ pc' = pc

(* clear and the assignment operators *)

Clear ==
    \E t \in {"a"} :
        /\ pc = "running"
        /\ values' = Put(t, clear(values[t]))
        /\ last' = Record("clear", t, "-", NoArg, NoArg, "none")
        /\ pc' = pc

AssignCopy ==
    \E t \in {"a"}, u \in Slots :
        /\ pc = "running"
        /\ values' = Put(t, IF t = u THEN OperatorAssignSelf(values[t])
                                ELSE OperatorAssignCopy(values[t], values[u]))
        /\ last' = Record("operator=(const JsonValue&)", t, u, NoArg, NoArg, "none")
        /\ pc' = pc

AssignMove ==
    \E t \in {"a"}, u \in {"b"} :
        /\ pc = "running"
        /\ values' = [values EXCEPT ![t] = OperatorAssignMove(values[t], values[u]).self,
                                    ![u] = OperatorAssignMove(values[t], values[u]).other]
        /\ last' = Record("operator=(JsonValue&&)", t, u, NoArg, NoArg, "none")
        /\ pc' = pc

AssignObject ==
    \E t \in {"a"}, object \in InputObjects :
        /\ pc = "running"
        /\ values' = Put(t, SetObject(clear(values[t]), object))
        /\ last' = Record("operator=(ObjectType)", t, "-", object, NoArg, "none")
        /\ pc' = pc

AssignArray ==
    \E t \in {"a"}, array \in InputArrays :
        /\ pc = "running"
        /\ values' = Put(t, SetArray(clear(values[t]), array))
        /\ last' = Record("operator=(ArrayType)", t, "-", array, NoArg, "none")
        /\ pc' = pc

AssignString ==
    \E t \in {"a"}, string \in InputStrings :
        /\ pc = "running"
        /\ values' = Put(t, SetString(clear(values[t]), string))
        /\ last' = Record("operator=(string)", t, "-", string, NoArg, "none")
        /\ pc' = pc

AssignArithmetic ==
    \E t \in {"a"}, a \in ArithmeticInputs :
        /\ pc = "running"
        /\ values' = Put(t, SetArithmetic(clear(values[t]), a))
        /\ last' = Record("operator=(ArithmeticType)", t, "-", a, NoArg, "none")
        /\ pc' = pc

AssignBoolean ==
    \E t \in {"a"}, boolean \in BOOLEAN :
        /\ pc = "running"
        /\ values' = Put(t, SetBoolean(clear(values[t]), boolean))
        /\ last' = Record("operator=(bool)", t, "-", boolean, NoArg, "none")
        /\ pc' = pc

AssignNull ==
    \E t \in {"a"} :
        /\ pc = "running"
        /\ values' = Put(t, [clear(values[t]) EXCEPT !.mType = "null"])
        /\ last' = Record("operator=(nullptr_t)", t, "-", NoArg, NoArg, "none")
        /\ pc' = pc

(* observers and accessors *)

TypeOf ==
    \E t \in {"a"} :
        /\ pc = "running"
        /\ values' = Put(t, values[t])
        /\ last' = Record("type", t, "-", NoArg, type(values[t]), "none")
        /\ pc' = pc

Is ==
    \E t \in {"a"}, ty \in Type :
        /\ pc = "running"
        /\ values' = Put(t, values[t])
        /\ last' = Record("is", t, "-", ty, is(values[t], ty), "none")
        /\ pc' = pc

HasMember ==
    \E t \in {"a"}, key \in Keys :
        /\ pc = "running"
        /\ values' = Put(t, values[t])
        /\ last' = Record("hasMember", t, "-", key, hasMember(values[t], key), "none")
        /\ pc' = pc

KeysOf ==
    \E t \in {"a"} :
        /\ pc = "running"
        /\ values' = Put(t, values[t])
        /\ last' = Record("keys", t, "-", NoArg, keys(values[t]).ret, keys(values[t]).err)
        /\ pc' = pc

Size ==
    \E t \in {"a"} :
        /\ pc = "running"
        /\ values' = Put(t, values[t])
        /\ last' = Record("size", t, "-", NoArg, size(values[t]).ret, size(values[t]).err)
        /\ pc' = pc

Equals ==
    \E t \in Slots, u \in Slots :
        /\ pc = "running"
        /\ values' = Put(t, values[t])
        /\ last' = Record("operator==", t, u, NoArg, OperatorEq(values[t], values[u]), "none")
        /\ pc' = pc

NotEquals ==
    \E t \in Slots, u \in Slots :
        /\ pc = "running"
        /\ values' = Put(t, values[t])
        /\ last' = Record("operator!=", t, u, NoArg, OperatorNe(values[t], values[u]), "none")
        /\ pc' = pc

AccessKeyMutable ==
    \E t \in {"a"}, key \in Keys :
        /\ pc = "running"
        /\ values' = Put(t, KeyedMutable(values[t], key).self)
        /\ last' = Record("operator[](string)", t, "-", key, KeyedMutable(values[t], key).ret, KeyedMutable(values[t], key).err)
        /\ pc' = pc

AccessKeyConst ==
    \E t \in {"a"}, key \in Keys :
        /\ pc = "running"
        /\ values' = Put(t, KeyedConst(values[t], key).self)
        /\ last' = Record("operator[](string) const", t, "-", key, KeyedConst(values[t], key).ret, KeyedConst(values[t], key).err)
        /\ pc' = pc

AccessIndexMutable ==
    \E t \in {"a"}, index \in Indices, ub \in PastTheEnd :
        /\ pc = "running"
        /\ values' = Put(t, IndexMutable(values[t], index, ub).self)
        /\ last' = Record("operator[](IntegralType)", t, "-", index, IndexMutable(values[t], index, ub).ret, IndexMutable(values[t], index, ub).err)
        /\ pc' = pc

AccessIndexConst ==
    \E t \in {"a"}, index \in Indices :
        /\ pc = "running"
        /\ values' = Put(t, IndexConst(values[t], index).self)
        /\ last' = Record("operator[](IntegralType) const", t, "-", index, IndexConst(values[t], index).ret, IndexConst(values[t], index).err)
        /\ pc' = pc

ToArithmetic ==
    \E t \in {"a"}, indeterminate \in Indeterminate :
        /\ pc = "running"
        /\ values' = Put(t, values[t])
        /\ last' = Record("operator ArithmeticType", t, "-", NoArg, OperatorArithmetic(values[t], indeterminate).ret, OperatorArithmetic(values[t], indeterminate).err)
        /\ pc' = pc

(* parse: a parse that never returns leaves the program hung inside it *)

Parse ==
    \E t \in {"a"}, jsonString \in InputTexts :
        /\ pc = "running"
        /\ values' = Put(t, parse(values[t], jsonString).self)
        /\ last' = Record("parse", t, "-", jsonString, parse(values[t], jsonString).rule,
                          IF parse(values[t], jsonString).status = "ok"
                          THEN "none" ELSE parse(values[t], jsonString).status)
        /\ pc' = IF parse(values[t], jsonString).status = "diverges"
                 THEN "hung" ELSE "running"

\* a.parse( b.stringify() )
ParseStringified ==
    \E t \in {"a"}, u \in {"b"}, outcome \in NoReturnStrings :
        /\ pc = "running"
        /\ values' = Put(t, IF stringify(values[u], outcome).err = "abort"
                                THEN values[t]
                                ELSE parse(values[t], stringify(values[u], outcome).ret).self)
        /\ last' = Record("parse(stringify)", t, u, stringify(values[u], outcome).ret,
                          stringify(values[u], outcome).err,
                          IF stringify(values[u], outcome).err = "abort" THEN "abort"
                          ELSE IF parse(values[t], stringify(values[u], outcome).ret).status = "ok"
                               THEN "none"
                               ELSE parse(values[t], stringify(values[u], outcome).ret).status)
        /\ pc' = IF /\ stringify(values[u], outcome).err # "abort"
                    /\ parse(values[t], stringify(values[u], outcome).ret).status = "diverges"
                 THEN "hung" ELSE "running"

Next ==
    \/ ConstructDefault \/ ConstructType \/ ConstructCopy \/ ConstructMove
    \/ ConstructObject \/ ConstructArray \/ ConstructString \/ ConstructBoolean
    \/ ConstructArithmetic \/ ConstructNull
    \/ Clear \/ AssignCopy \/ AssignMove
    \/ AssignObject \/ AssignArray \/ AssignString \/ AssignArithmetic
    \/ AssignBoolean \/ AssignNull
    \/ TypeOf \/ Is \/ HasMember \/ KeysOf \/ Size \/ Equals \/ NotEquals
    \/ AccessKeyMutable \/ AccessKeyConst \/ AccessIndexMutable \/ AccessIndexConst
    \/ ToArithmetic
    \/ Parse \/ ParseStringified

Spec == Init /\ [][Next]_vars

(* ---------------------- operator== on its own -------------------------- *)

\* The values compared with operator== and operator!=: one of every kind the
\* comparison distinguishes, each as its constructor leaves it.  The numbers
\* are the number without a resolution and integers and long doubles with
\* equal and with different bytes.
CompareInputs ==
    {JsonValue("undefined"),
     JsonValue("null"),
     JsonValue("number"),
     SetArithmetic(JsonValue("number"), [cls |-> "signed", n |-> 0, f |-> FloatZero]),
     SetArithmetic(JsonValue("number"), [cls |-> "signed", n |-> 5, f |-> FloatZero]),
     SetArithmetic(JsonValue("number"), [cls |-> "unsigned", n |-> 5, f |-> FloatZero]),
     SetArithmetic(JsonValue("number"), [cls |-> "floating", n |-> 0, f |-> FloatOne]),
     SetArithmetic(JsonValue("number"), [cls |-> "floating", n |-> 0, f |-> FloatNaN]),
     SetBoolean(JsonValue("boolean"), TRUE),
     SetString(JsonValue("string"), <<"s">>),
     SetArray(JsonValue("array"), <<JsonValue("number")>>),
     SetArray(JsonValue("array"),
              <<SetArithmetic(JsonValue("number"), [cls |-> "signed", n |-> 0, f |-> FloatZero])>>)}

\* Two objects, each constructed with one of the values above.
InitCompare ==
    /\ values \in [Slots -> CompareInputs]
    /\ last = [op |-> "init", t |-> "-", u |-> "-", arg |-> NoArg, pre |-> <<>>,
               ret |-> NoArg, err |-> "none"]
    /\ pc = "running"

NextCompare == Equals \/ NotEquals

SpecCompare == InitCompare /\ [][NextCompare]_vars

(* ------------------------------- claims -------------------------------- *)

\* The object the last operation was called on, now and before the call,
\* and its operand before the call.
Now == values[last.t]

Before == last.pre[last.t]

OperandBefore == last.pre[last.u]

\* The payloads of the kinds that are not active are empty/default.
InactiveDefault(v) ==
    /\ v.mType # "string" => Len(v.mStringValue) = 0
    /\ v.mType # "array" => Len(v.mElements) = 0
    /\ v.mType # "object" => DOMAIN v.mMembers = {}
    /\ v.mType # "boolean" => v.mBoolean = FALSE
    /\ v.mType # "number" => v.mNumericType = "NONE" /\ v.mNumericValue = ZeroRaw

\* Every payload is empty/default.
AllDefault(v) ==
    /\ Len(v.mStringValue) = 0
    /\ Len(v.mElements) = 0
    /\ DOMAIN v.mMembers = {}
    /\ v.mBoolean = FALSE
    /\ v.mNumericType = "NONE"
    /\ v.mNumericValue = ZeroRaw

\* C1: a JsonValue constructed from a Type argument reports exactly that
\* type through type() and is(), for each of the seven kinds; constructed
\* without an argument it has kind undefined.
C1_ConstructedTypeIsReported ==
    /\ last.op = "JsonValue(Type)" =>
           /\ type(Now) = last.arg
           /\ \A ty \in Type : is(Now, ty) <=> ty = last.arg
    /\ last.op = "JsonValue()" =>
           /\ type(Now) = "undefined"
           /\ \A ty \in Type : is(Now, ty) <=> ty = "undefined"

C1_Witness ==
    /\ last.op = "JsonValue(Type)"
    /\ last.arg = "number"
    /\ Before.mType = "array"
    /\ is(Now, "number")

\* C2 (as claimed): a value built by the copy constructor has the type of
\* its source and compares equal to it with operator==, whatever the source.
C2_CopyEqualsSource ==
    last.op = "JsonValue(const JsonValue&)" =>
        /\ type(Now) = type(values[last.u])
        /\ OperatorEq(values[last.u], Now)

\* C3: after move construction the new value has the type the source had
\* and the source has type undefined.
C3_MoveConstructTransfersType ==
    last.op = "JsonValue(JsonValue&&)" =>
        /\ type(Now) = type(OperandBefore)
        /\ type(values[last.u]) = "undefined"

C3_Witness ==
    /\ last.op = "JsonValue(JsonValue&&)"
    /\ type(OperandBefore) = "object"
    /\ DOMAIN OperandBefore.mMembers # {}
    /\ type(Now) = "object"
    /\ type(values[last.u]) = "undefined"

\* C4: clear() never fails, leaves the value with kind undefined and every
\* payload empty/default, and a second clear() changes nothing.
C4_ClearResets ==
    last.op = "clear" =>
        /\ last.err = "none"
        /\ type(Now) = "undefined"
        /\ AllDefault(Now)
        /\ clear(Now) = Now
        /\ \A o \in Slots \ {last.t} : values[o] = last.pre[o]

C4_Witness ==
    /\ last.op = "clear"
    /\ type(Before) = "array"
    /\ Len(Before.mElements) > 0
    /\ type(Now) = "undefined"

TypedAssignments ==
    {"operator=(ObjectType)", "operator=(ArrayType)", "operator=(string)",
     "operator=(ArithmeticType)", "operator=(bool)", "operator=(nullptr_t)"}

\* C5: after any typed assignment operator, whatever the value held before,
\* is(newKind) is true, every payload other than the one of the new kind is
\* empty/default, the payload of the new kind is the assigned data and
\* size() reflects only that data.
C5_TypedAssignmentReplaces ==
    /\ last.op \in TypedAssignments => last.err = "none" /\ InactiveDefault(Now)
    /\ last.op = "operator=(ObjectType)" =>
           /\ is(Now, "object")
           /\ Now.mMembers = last.arg
           /\ size(Now).ret = Cardinality(DOMAIN last.arg)
    /\ last.op = "operator=(ArrayType)" =>
           /\ is(Now, "array")
           /\ Now.mElements = last.arg
           /\ size(Now).ret = Len(last.arg)
    /\ last.op = "operator=(string)" =>
           /\ is(Now, "string")
           /\ Now.mStringValue = last.arg
           /\ size(Now).ret = Len(last.arg)
    /\ last.op = "operator=(ArithmeticType)" =>
           /\ is(Now, "number")
           /\ Now.mNumericType # "NONE"
    /\ last.op = "operator=(bool)" =>
           /\ is(Now, "boolean")
           /\ Now.mBoolean = last.arg
    /\ last.op = "operator=(nullptr_t)" => is(Now, "null")

C5_Witness ==
    /\ last.op = "operator=(ArrayType)"
    /\ type(Before) = "object"
    /\ Cardinality(DOMAIN Before.mMembers) = 2
    /\ is(Now, "array")
    /\ size(Now).ret = 1

\* The payload rule, for a value and every value it contains.
RECURSIVE WellFormed(_)
WellFormed(v) ==
    /\ InactiveDefault(v)
    /\ \A i \in 1..Len(v.mElements) : WellFormed(v.mElements[i])
    /\ \A k \in DOMAIN v.mMembers : WellFormed(v.mMembers[k])

C7_DifferentResolutionsUnequal ==
    ( /\ last.op = "operator=="
      /\ type(values[last.t]) = "number"
      /\ type(values[last.u]) = "number"
      /\ values[last.t].mNumericType # values[last.u].mNumericType )
    => last.ret = FALSE

\* C8 (as claimed): keys() on an object with N members returns exactly N
\* entries, one per member key in ascending order, and leaves the object
\* unchanged; on any other kind it fails with a TypeMismatch error.
C8_KeysReturnsMemberKeys ==
    last.op = "keys" =>
        /\ values = last.pre
        /\ IF type(Before) = "object"
           THEN /\ last.err = "none"
                /\ Len(last.ret) = Cardinality(DOMAIN Before.mMembers)
                /\ last.ret = SortedKeys(DOMAIN Before.mMembers)
           ELSE last.err = "runtime_error"

\* C9: mutable keyed access on an object without the member inserts exactly
\* one member of kind undefined, leaves every other member unchanged and
\* returns the new member; hasMember is then true and size() has grown by
\* one.  When the member is present nothing is added or changed.
C9_MutableKeyedAccessInserts ==
    (last.op = "operator[](string)" /\ type(Before) = "object") =>
        /\ last.err = "none"
        /\ type(Now) = "object"
        /\ \A o \in Slots \ {last.t} : values[o] = last.pre[o]
        /\ IF last.arg \in DOMAIN Before.mMembers
           THEN /\ Now = Before
                /\ last.ret = Before.mMembers[last.arg]
           ELSE /\ DOMAIN Now.mMembers = DOMAIN Before.mMembers \cup {last.arg}
                /\ \A k \in DOMAIN Before.mMembers : Now.mMembers[k] = Before.mMembers[k]
                /\ type(Now.mMembers[last.arg]) = "undefined"
                /\ AllDefault(Now.mMembers[last.arg])
                /\ last.ret = Now.mMembers[last.arg]
                /\ hasMember(Now, last.arg)
                /\ size(Now).ret = size(Before).ret + 1

C9_Witness ==
    /\ last.op = "operator[](string)"
    /\ type(Before) = "object"
    /\ DOMAIN Before.mMembers = {<<"a">>}
    /\ last.arg = <<"b">>
    /\ hasMember(Now, <<"b">>)
    /\ size(Now).ret = 2

\* C10: immutable keyed access on an object fails with OutOfRange when the
\* member is absent and inserts nothing; when the member is present it
\* returns that member.
C10_ConstKeyedAccess ==
    (last.op = "operator[](string) const" /\ type(Before) = "object") =>
        /\ values = last.pre
        /\ IF last.arg \in DOMAIN Before.mMembers
           THEN last.err = "none" /\ last.ret = Before.mMembers[last.arg]
           ELSE last.err = "out_of_range"

C10_Witness ==
    /\ last.op = "operator[](string) const"
    /\ type(Before) = "object"
    /\ DOMAIN Before.mMembers = {<<"a">>}
    /\ last.arg = <<"b">>
    /\ last.err = "out_of_range"
    /\ size(Now).ret = 1

\* C11: on an array of length N and a negative index -k with 1 <= k <= N,
\* the mutable and the immutable v[-k] return the element at position N-k
\* and act exactly as v[N-k] does; with k > N the access fails with
\* OutOfRange and the array is unchanged.
C11_NegativeIndexCountsFromEnd ==
    ( /\ last.op \in {"operator[](IntegralType)", "operator[](IntegralType) const"}
      /\ type(Before) = "array"
      /\ last.arg < 0 )
    => LET N == Len(Before.mElements)
           k == -last.arg
       IN  IF k <= N
           THEN /\ last.err = "none"
                /\ last.ret = Before.mElements[(N - k) + 1]
                /\ IF last.op = "operator[](IntegralType)"
                   THEN \A ub \in PastTheEnd :
                            /\ last.ret = IndexMutable(Before, N - k, ub).ret
                            /\ Now = IndexMutable(Before, N - k, ub).self
                   ELSE /\ last.ret = IndexConst(Before, N - k).ret
                        /\ Now = Before
           ELSE /\ last.err = "out_of_range"
                /\ values = last.pre
                /\ size(Now).ret = N

\* v[-2] on the array [true, undefined] is its first element.
C11_Witness ==
    /\ last.op = "operator[](IntegralType)"
    /\ type(Before) = "array"
    /\ Len(Before.mElements) = 2
    /\ type(Before.mElements[1]) = "boolean"
    /\ type(Before.mElements[2]) = "undefined"
    /\ last.arg = -2
    /\ last.err = "none"
    /\ type(last.ret) = "boolean"

\* C12 (as claimed): mutable v[i] on an array of length N with i >= N grows
\* the array to length exactly i+1, keeps the first N elements, fills the
\* positions N..i with values of kind undefined and returns the element at
\* position i; immutable v[i] with i >= N fails with OutOfRange and does not
\* grow the array.
C12_MutableIndexGrows ==
    /\ ( /\ last.op = "operator[](IntegralType)"
         /\ type(Before) = "array"
         /\ last.arg >= Len(Before.mElements) )
       => /\ last.err = "none"
          /\ Len(Now.mElements) = last.arg + 1
          /\ \A i \in 1..Len(Before.mElements) : Now.mElements[i] = Before.mElements[i]
          /\ \A i \in (Len(Before.mElements) + 1)..(last.arg + 1) :
                 /\ type(Now.mElements[i]) = "undefined"
                 /\ AllDefault(Now.mElements[i])
          /\ last.ret = Now.mElements[last.arg + 1]
    /\ ( /\ last.op = "operator[](IntegralType) const"
         /\ type(Before) = "array"
         /\ last.arg >= Len(Before.mElements) )
       => /\ last.err = "out_of_range"
          /\ values = last.pre

\* C13: size() returns the member count of an object, the element count of
\* an array and the character length of a string, fails with TypeMismatch
\* for number, boolean, null and undefined, and leaves the value unchanged in
\* every case.
C13_SizeByKind ==
    last.op = "size" =>
        /\ values = last.pre
        /\ type(Before) = "object" =>
               last.err = "none" /\ last.ret = Cardinality(DOMAIN Before.mMembers)
        /\ type(Before) = "array" =>
               last.err = "none" /\ last.ret = Len(Before.mElements)
        /\ type(Before) = "string" =>
               last.err = "none" /\ last.ret = Len(Before.mStringValue)
        /\ type(Before) \in {"number", "boolean", "null", "undefined"} =>
               last.err = "runtime_error"

C13_Witness ==
    /\ last.op = "size"
    /\ type(Before) = "string"
    /\ Before.mStringValue = <<"s">>
    /\ last.err = "none"
    /\ last.ret = 1

\* C14 (as claimed): a number built from a native integer n, signed or
\* unsigned, converts back to that arithmetic type as exactly n.
C14_ArithmeticRoundTrip ==
    ( /\ last.op = "operator ArithmeticType"
      /\ type(Before) = "number"
      /\ Before.mNumericType \in {"SIGNED_INTEGRAL", "UNSIGNED_INTEGRAL"} )
    => /\ last.err = "none"
       /\ last.ret = IF Before.mNumericType = "SIGNED_INTEGRAL"
                     THEN signedIntegral(Before.mNumericValue)
                     ELSE unsignedIntegral(Before.mNumericValue)

\* The errors that report a misuse of the interface: std::runtime_error for
\* an operation the kind does not define, std::out_of_range for an absent
\* key or an index outside the array.
UsageErrors == {"runtime_error", "out_of_range"}

C16_ParseTerminates ==
    last.op = "parse" =>
        /\ last.err \in {"none", "ParseError"}
        /\ pc = "running"
        /\ \A pos \in 0..Len(last.arg), n \in 1..2 :
               update(last.arg, pos, n) = Min(pos + n, Len(last.arg))

\* The next Len(text) characters from the read position equal text.
LiteralAt(src, pos, text) ==
    /\ pos + Len(text) <= Len(src)
    /\ \A i \in 1..Len(text) : src[pos + i] = text[i]

\* C17 (as claimed): the literal match of the cursor is true exactly when
\* the next len(text) characters from the read position equal text;
\* consequently parsing "true" yields the boolean true, and parsing "tru"
\* fails with a ParseError raised by the parseValue rule.
C17_LiteralMatch ==
    last.op = "parse" =>
        /\ \A pos \in 0..Len(last.arg), text \in {STRING_TRUE, STRING_FALSE, STRING_NULL} :
               strncmp(last.arg, pos, text) <=> LiteralAt(last.arg, pos, text)
        /\ last.arg = <<"t", "r", "u", "e">> =>
               /\ last.err = "none"
               /\ type(Now) = "boolean"
               /\ Now.mBoolean = TRUE
        /\ last.arg = <<"t", "r", "u">> =>
               /\ last.err = "ParseError"
               /\ last.ret = "parseValue"

\* A value without an undefined value in it, whose numbers hold a number.
RECURSIVE Defined(_)
Defined(v) ==
    /\ v.mType # "undefined"
    /\ v.mType = "number" =>
           /\ v.mNumericType # "NONE"
           /\ v.mNumericType = "FLOATING" => ~IsNaN(floatValue(v.mNumericValue))
    /\ \A i \in 1..Len(v.mElements) : Defined(v.mElements[i])
    /\ \A k \in DOMAIN v.mMembers : Defined(v.mMembers[k])

\* C18 (as claimed): for every value v built by the program that contains
\* no undefined value, parsing the dense serialization of v succeeds and
\* yields a value equal to v.
C18_RoundTrip ==
    (last.op = "parse(stringify)" /\ Defined(OperandBefore)) =>
        /\ last.err = "none"
        /\ OperatorEq(Now, OperandBefore)

\* C19 (as claimed): mutable v[i] on an array of length N with an index that
\* resolves to a position p < N (0 <= i < N, or i < 0 with |i| <= N) leaves
\* the length at N and every element unchanged and returns the element at p.
C19_MutableIndexInRangeKeepsArray ==
    ( /\ last.op = "operator[](IntegralType)"
      /\ type(Before) = "array"
      /\ -last.arg <= Len(Before.mElements)
      /\ last.arg < Len(Before.mElements) )
    => LET p == IF last.arg < 0 THEN Len(Before.mElements) + last.arg ELSE last.arg
       IN  /\ last.err = "none"
           /\ Len(Now.mElements) = Len(Before.mElements)
           /\ Now = Before
           /\ last.ret = Before.mElements[p + 1]

\* C20 (as claimed): copy-assigning a value to itself (a = a) leaves its
\* kind and payload unchanged, for every kind, undefined and a number
\* without a resolution included.
C20_SelfAssignmentChangesNothing ==
    (last.op = "operator=(const JsonValue&)" /\ last.u = last.t) =>
        /\ type(Now) = type(Before)
        /\ Now = Before

\* C21 (as claimed): after the move assignment a = std::move( b ) between
\* two distinct objects, a holds the kind and payload b had before and b has
\* kind undefined with empty payloads, whatever a and b held, also when they
\* compared equal before the assignment.
C21_MoveAssignTransfers ==
    (last.op = "operator=(JsonValue&&)" /\ last.u # last.t) =>
        /\ Now = OperandBefore
        /\ type(values[last.u]) = "undefined"
        /\ AllDefault(values[last.u])

\* C22 (as claimed): operator== is symmetric, (a == b) equals (b == a) for
\* all values, numbers of different resolutions or without a resolution
\* included, and operator!= is always the negation of operator==.
C22_EqualitySymmetric ==
    /\ last.op = "operator==" =>
           last.ret = OperatorEq(values[last.u], values[last.t])
    /\ last.op = "operator!=" =>
           /\ last.ret = ~OperatorEq(values[last.t], values[last.u])
           /\ last.ret = OperatorNe(values[last.u], values[last.t])

====
